---- MODULE Spec2Model ----
(***************************************************************************)
(* Shape-level model of the network builders of hw2/cnn.py and of the VAE  *)
(* of hw3/autoencoder.py.  A layer is a record naming the torch module and *)
(* its numeric parameters; a tensor is represented by its per-sample shape *)
(* <<channels, height, width>> (or <<features>>), and <<>> stands for the  *)
(* RuntimeError torch raises when a layer is fed a tensor it cannot take.  *)
(***************************************************************************)
EXTENDS Integers, Sequences, FiniteSets, TLC

\* ---------------------------------------------------------------- bounds
MaxLen == 3          \* longest channels list tried
MaxPoolEvery == 4    \* largest pool_every tried
MaxHidden == 2       \* longest hidden_dims list tried
MaxBatch == 2        \* largest batch size of a forward call

ChannelVals == {1, 2}        \* channel counts tried
SideVals == {2, 5, 8}        \* image heights / widths tried
HiddenVals == {3, 4}         \* hidden widths tried
ClassVals == {2}             \* out_classes tried
MaxBlockLen == 3     \* longest channels / kernel_sizes list of a residual block
MaxStackLen == 2     \* longest list given to EncoderConv / DecoderConv
KernelVals == {1, 2, 3}      \* kernel sizes tried for a residual block
StackKernelVals == {4}       \* kernel sizes tried for encoder / decoder stacks
StrideVals == {1, 2}         \* strides tried
PaddingVals == {0, 1}        \* paddings tried
BlockSideVals == {1, 2, 5}   \* heights / widths fed to a block
VaeSideVals == {8, 9, 64}    \* heights / widths of a VAE's in_size
VaeSchedules == {<<2, 1>>, <<1, 0>>}   \* (stride, padding) pairs of a VAE stack
ZDimVals == {3}              \* latent sizes tried
MirrorSideVals == {64, 65, 72, 100}   \* heights / widths fed to EncoderCNN
MaxLossBatch == 2    \* largest batch given to vae_loss
LossSizes == {<<1, 1, 1>>, <<1, 2, 1>>}   \* (C, H, W) of the images given to vae_loss
LossZDimVals == {1, 2}       \* latent sizes given to vae_loss
PixelVals == {0, 1}          \* pixel values of x and xr
MeanVals == {-1, 0}          \* entries of z_mu
LogVarVals == {0, 1}         \* entries of z_log_sigma2
MaxSamples == 3      \* largest training set given to KNNClassifier.train
MaxLoaderBatch == 2  \* largest batch_size of its DataLoader
LabelVals == {0, 1}          \* class labels tried
KVals == {1, 3}              \* k of the KNNClassifier

\* ---------------------------------------------------------------- python
\* Python list indexing s[i], negative indices counting from the end.
PyIndex(s, i) == IF i < 0 THEN s[Len(s) + i + 1] ELSE s[i + 1]

\* Python slice s[a:b] for 0 <= a, 0 <= b, clamped to the list.
PySlice(s, a, b) ==
    LET hi == IF b < Len(s) THEN b ELSE Len(s)
    IN  IF a >= hi THEN <<>> ELSE SubSeq(s, a + 1, hi)

\* Python [x] * n.
Rep(x, n) == [i \in 1..n |-> x]

\* Concatenation of a sequence of sequences: what a loop of appends builds.
RECURSIVE ConcatAll(_)
ConcatAll(ss) ==
    IF Len(ss) = 0 THEN <<>> ELSE Head(ss) \o ConcatAll(Tail(ss))

RECURSIVE Pow2(_)
Pow2(n) == IF n = 0 THEN 1 ELSE 2 * Pow2(n - 1)

\* All sequences over S of length lo..hi.
SeqsOf(S, lo, hi) == UNION {[1..n -> S] : n \in lo..hi}

\* ---------------------------------------------------------------- layers
Conv2d(i, o, k, s, p, b) ==
    [op |-> "Conv2d", in_channels |-> i, out_channels |-> o,
     kernel_size |-> k, stride |-> s, padding |-> p, bias |-> b]
ConvTranspose2d(i, o, k, s, p, b) ==
    [op |-> "ConvTranspose2d", in_channels |-> i, out_channels |-> o,
     kernel_size |-> k, stride |-> s, padding |-> p, bias |-> b]
MaxPool2d == [op |-> "MaxPool2d", kernel_size |-> 2, stride |-> 2]
ReLU == [op |-> "ReLU"]
LeakyReLU == [op |-> "LeakyReLU"]
ELU == [op |-> "ELU"]
Sigmoid == [op |-> "Sigmoid"]
Dropout2d(pct) == [op |-> "Dropout2d", p |-> pct]
Dropout(pct) == [op |-> "Dropout", p |-> pct]
BatchNorm2d(c) == [op |-> "BatchNorm2d", num_features |-> c]
Linear(i, o) == [op |-> "Linear", in_features |-> i, out_features |-> o]
\* CustomConv: parallel 1x1, 3x3 and 5x5 convolutions, averaged, then BatchNorm.
CustomConv(i, o) == [op |-> "CustomConv", in_channels |-> i, out_channels |-> o]

IsConv(l) == l.op \in {"Conv2d", "CustomConv", "ConvTranspose2d"}
IsAct(l) == l.op \in {"ReLU", "LeakyReLU", "ELU", "Sigmoid"}
IsDrop(l) == l.op \in {"Dropout", "Dropout2d"}
IsNorm(l) == l.op = "BatchNorm2d"
IsBlock(l) == l.op \in {"ResidualBlock", "CustomResidualBlock"}
\* A 2x downsampling: the max-pool, or YourCodeNet's kernel-2 stride-2 conv.
IsDown(l) == \/ l.op = "MaxPool2d"
             \/ (l.op = "Conv2d" /\ l.stride = 2 /\ l.kernel_size = 2)

\* ---------------------------------------------------------------- hw2 blocks
\* Faulty variant of ResidualBlockChecks: the odd-kernel assert is missing.
ResidualBlockChecksNoOdd(channels, kernel_sizes) ==
    /\ Len(channels) > 0 /\ Len(kernel_sizes) > 0
    /\ Len(channels) = Len(kernel_sizes)

\* ResidualBlock.__init__'s three asserts.
ResidualBlockChecks(channels, kernel_sizes) ==
    /\ Len(channels) > 0 /\ Len(kernel_sizes) > 0
    /\ Len(channels) = Len(kernel_sizes)
    /\ \A i \in 1..Len(kernel_sizes) : kernel_sizes[i] % 2 = 1

\* Faulty variant of BlockPadding: the padding of a 3x3 convolution whatever
\* the kernel size.
BlockPaddingFixed(k) == 1

\* padding = kernel_size // 2 of ResidualBlock's convolutions.
BlockPadding(k) == k \div 2

\* ResidualBlock.__init__: main_path.
ResidualMainPath(in_channels, channels, kernel_sizes, batchnorm, dropout) ==
    LET L == Len(channels)
        first == <<Conv2d(in_channels, channels[1], kernel_sizes[1], 1,
                          BlockPadding(kernel_sizes[1]), TRUE),
                   Dropout2d(dropout)>>
                 \o (IF batchnorm THEN <<BatchNorm2d(channels[1])>> ELSE <<>>)
                 \o <<ReLU>>
        step(idx) ==
            <<Conv2d(channels[idx + 1], channels[idx + 2], kernel_sizes[idx + 2], 1,
                     BlockPadding(kernel_sizes[idx + 2]), TRUE)>>
            \o (IF idx < L - 2
                THEN <<ReLU, Dropout2d(dropout)>>
                     \o (IF batchnorm THEN <<BatchNorm2d(channels[idx + 2])>> ELSE <<>>)
                ELSE <<>>)
    IN  first \o ConcatAll([j \in 1..(L - 1) |-> step(j - 1)])

\* ResidualBlock.__init__ / CustomResidualBlock.__init__: shortcut_path.
ShortcutPath(in_channels, channels) ==
    IF channels[Len(channels)] # in_channels
    THEN <<Conv2d(in_channels, channels[Len(channels)], 1, 1, 0, FALSE)>>
    ELSE <<>>

\* ResidualBlock(in_channels, channels, kernel_sizes, batchnorm, dropout);
\* ok = FALSE is the AssertionError of the constructor.
ResidualBlock(in_channels, channels, kernel_sizes, batchnorm, dropout) ==
    IF ResidualBlockChecks(channels, kernel_sizes)
    THEN [op |-> "ResidualBlock", ok |-> TRUE,
          main_path |-> ResidualMainPath(in_channels, channels, kernel_sizes,
                                         batchnorm, dropout),
          shortcut_path |-> ShortcutPath(in_channels, channels)]
    ELSE [op |-> "ResidualBlock", ok |-> FALSE,
          main_path |-> <<>>, shortcut_path |-> <<>>]

\* CustomResidualBlock.__init__: main_path.
CustomMainPath(in_channels, channels, batchnorm, dropout) ==
    LET L == Len(channels)
        first == <<CustomConv(in_channels, channels[1]), Dropout2d(dropout)>>
                 \o (IF batchnorm THEN <<BatchNorm2d(channels[1])>> ELSE <<>>)
                 \o <<LeakyReLU>>
        step(idx) ==
            <<CustomConv(channels[idx + 1], channels[idx + 2]), Dropout2d(dropout)>>
            \o (IF idx < L - 2
                THEN <<LeakyReLU, Dropout2d(dropout)>>
                     \o (IF batchnorm THEN <<BatchNorm2d(channels[idx + 2])>> ELSE <<>>)
                ELSE <<>>)
    IN  first \o ConcatAll([j \in 1..(L - 1) |-> step(j - 1)])

\* CustomResidualBlock(in_channels, channels, batchnorm=True, dropout=0.2).
CustomResidualBlock(in_channels, channels, batchnorm, dropout) ==
    IF Len(channels) > 0
    THEN [op |-> "CustomResidualBlock", ok |-> TRUE,
          main_path |-> CustomMainPath(in_channels, channels, batchnorm, dropout),
          shortcut_path |-> ShortcutPath(in_channels, channels)]
    ELSE [op |-> "CustomResidualBlock", ok |-> FALSE,
          main_path |-> <<>>, shortcut_path |-> <<>>]

\* ---------------------------------------------------------------- hw3 stacks
\* EncoderConv.__init__ / DecoderConv.__init__: the four asserts.
StackChecks(channels, kernel_sizes, stride_list, padding_list) ==
    /\ Len(channels) > 0 /\ Len(kernel_sizes) > 0
    /\ Len(channels) = Len(kernel_sizes)
    /\ Len(channels) = Len(stride_list)
    /\ Len(channels) = Len(padding_list)

\* The layer list both stacks build, conv_op being "Conv2d" or "ConvTranspose2d".
StackLayers(conv_op, in_channels, channels, kernel_sizes, stride_list, padding_list, batchnorm, dropout, bias_flag) ==
    LET L == Len(channels)
        conv(i, o, k, st, p, b) ==
            IF conv_op = "Conv2d" THEN Conv2d(i, o, k, st, p, b)
            ELSE ConvTranspose2d(i, o, k, st, p, b)
        first == <<conv(in_channels, channels[1], kernel_sizes[1], stride_list[1],
                        padding_list[1], bias_flag),
                   Dropout2d(dropout)>>
                 \o (IF batchnorm THEN <<BatchNorm2d(channels[1])>> ELSE <<>>)
                 \o <<ELU>>
        step(idx) ==
            <<conv(channels[idx + 1], channels[idx + 2], kernel_sizes[idx + 2],
                   stride_list[idx + 2], padding_list[idx + 2], bias_flag)>>
            \o (IF idx < L - 2
                THEN <<ReLU, Dropout2d(dropout)>>
                     \o (IF batchnorm THEN <<BatchNorm2d(channels[idx + 2])>> ELSE <<>>)
                ELSE <<>>)
    IN  first \o ConcatAll([j \in 1..(L - 1) |-> step(j - 1)])

\* EncoderConv(in_channels, channels, kernel_sizes, stride_list, padding_list,
\* batchnorm=True, dropout=0.1, bias_flag=False): main_path ends in a Sigmoid.
EncoderConv(in_channels, channels, kernel_sizes, stride_list, padding_list) ==
    IF StackChecks(channels, kernel_sizes, stride_list, padding_list)
    THEN [op |-> "EncoderConv", ok |-> TRUE,
          main_path |-> StackLayers("Conv2d", in_channels, channels, kernel_sizes,
                                    stride_list, padding_list, TRUE, 10, FALSE)
                        \o <<Sigmoid>>,
          shortcut_path |-> <<>>]
    ELSE [op |-> "EncoderConv", ok |-> FALSE, main_path |-> <<>>, shortcut_path |-> <<>>]

\* DecoderConv(in_channels, channels, kernel_sizes, stride_list, padding_list,
\* batchnorm=True, dropout=0.1, bias_flag=False).
DecoderConv(in_channels, channels, kernel_sizes, stride_list, padding_list) ==
    IF StackChecks(channels, kernel_sizes, stride_list, padding_list)
    THEN [op |-> "DecoderConv", ok |-> TRUE,
          main_path |-> StackLayers("ConvTranspose2d", in_channels, channels, kernel_sizes,
                                    stride_list, padding_list, TRUE, 10, FALSE),
          shortcut_path |-> <<>>]
    ELSE [op |-> "DecoderConv", ok |-> FALSE, main_path |-> <<>>, shortcut_path |-> <<>>]

\* EncoderCNN(in_channels, out_channels).cnn
EncoderCNN(in_channels, out_channels) ==
    LET channels_list == <<256, 512, 1024, out_channels>>
        kernels_list == Rep(4, Len(channels_list))
        stride_list == Rep(2, Len(channels_list) - 1) \o <<1>>
        padding_list == Rep(1, Len(channels_list) - 1) \o <<0>>
    IN  EncoderConv(in_channels, channels_list, kernels_list, stride_list,
                    padding_list).main_path

\* DecoderCNN(in_channels, out_channels).cnn
DecoderCNN(in_channels, out_channels) ==
    LET channels_list == <<1024, 512, 256, out_channels>>
        kernels_list == Rep(4, Len(channels_list))
        stride_list == <<1>> \o Rep(2, Len(channels_list) - 1)
        padding_list == <<0>> \o Rep(1, Len(channels_list) - 1)
    IN  DecoderConv(in_channels, channels_list, kernels_list, stride_list,
                    padding_list).main_path

\* ---------------------------------------------------------------- hw2 builders
\* N_divisable and remaining of the three _make_feature_extractor methods.
NDivisable(channels, pool_every) == Len(channels) - (Len(channels) % pool_every)
Remaining(channels, pool_every) == Len(channels) % pool_every

\* ConvClassifier._make_feature_extractor: the layers list.
PlainFeatureLayers(in_size, channels, pool_every) ==
    LET N_divisable == NDivisable(channels, pool_every)
        remaining == Remaining(channels, pool_every)
        first == <<Conv2d(in_size[1], PyIndex(channels, 0), 3, 1, 1, TRUE), ReLU>>
        body(idx) ==
            <<Conv2d(PyIndex(channels, idx - 1), PyIndex(channels, idx), 3, 1, 1, TRUE),
              ReLU>>
            \o (IF (idx - 1) % pool_every = 0 THEN <<MaxPool2d>> ELSE <<>>)
        rest(idx) ==
            <<Conv2d(PyIndex(channels, idx + N_divisable - 1),
                     PyIndex(channels, idx + N_divisable), 3, 1, 1, TRUE),
              ReLU>>
    IN  first
        \o ConcatAll([idx \in 1..(N_divisable - 1) |-> body(idx)])
        \o ConcatAll([j \in 1..remaining |-> rest(j - 1)])

\* ConvClassifier._make_feature_extractor: final self.pool_cntr.
PlainPoolCntr(channels, pool_every) ==
    Cardinality({idx \in 1..(NDivisable(channels, pool_every) - 1) :
                    (idx - 1) % pool_every = 0})

\* ResNetClassifier._make_feature_extractor: the layers list.
ResNetFeatureLayers(in_size, channels, pool_every) ==
    LET num_ker == Len(PySlice(channels, 0, pool_every))
        N_divisable == NDivisable(channels, pool_every)
        remaining == Remaining(channels, pool_every)
        first == <<ResidualBlock(in_size[1], PySlice(channels, 0, pool_every),
                                 Rep(3, num_ker), FALSE, 0),
                   MaxPool2d>>
        \* range(0, N_divisable, pool_every) without its first element 0
        body(idx) ==
            <<ResidualBlock(PyIndex(channels, idx - 1),
                            PySlice(channels, idx, idx + pool_every),
                            Rep(3, pool_every), FALSE, 0),
              MaxPool2d>>
        last == IF remaining > 0
                THEN <<ResidualBlock(PyIndex(channels, N_divisable - 1),
                                     PySlice(channels, N_divisable,
                                             N_divisable + remaining),
                                     Rep(3, remaining), FALSE, 0)>>
                ELSE <<>>
    IN  first
        \o ConcatAll([j \in 1..((N_divisable \div pool_every) - 1) |->
                         body(j * pool_every)])
        \o last

\* ResNetClassifier / YourCodeNet ._make_feature_extractor: final self.pool_cntr
\* (one increment with the first block, one per later loop iteration).
BlockPoolCntr(channels, pool_every) ==
    LET iterations == NDivisable(channels, pool_every) \div pool_every
    IN  1 + (IF iterations > 1 THEN iterations - 1 ELSE 0)

\* YourCodeNet._make_feature_extractor: the layers list.
CustomFeatureLayers(in_size, channels, pool_every) ==
    LET N_divisable == NDivisable(channels, pool_every)
        remaining == Remaining(channels, pool_every)
        first == <<CustomResidualBlock(in_size[1], PySlice(channels, 0, pool_every),
                                       TRUE, 20),
                   MaxPool2d>>
        body(idx) ==
            LET curr_channels == PySlice(channels, idx, idx + pool_every)
            IN  <<CustomResidualBlock(PyIndex(channels, idx - 1), curr_channels,
                                      TRUE, 20),
                  Conv2d(PyIndex(curr_channels, -1), PyIndex(curr_channels, -1),
                         2, 2, 0, TRUE)>>
        last == IF remaining > 0
                THEN <<CustomResidualBlock(PyIndex(channels, N_divisable - 1),
                                           PySlice(channels, N_divisable,
                                                   N_divisable + remaining),
                                           TRUE, 20)>>
                ELSE <<>>
    IN  first
        \o ConcatAll([j \in 1..((N_divisable \div pool_every) - 1) |->
                         body(j * pool_every)])
        \o last

\* mlp_in_dims of _make_classifier before the loop.
FlattenedSize(in_size, channels, cntr) ==
    PyIndex(channels, -1) * (in_size[2] \div Pow2(cntr)) * (in_size[3] \div Pow2(cntr))

\* Input width of the idx-th (0-based) linear layer of the head.
MlpInDims(in_size, channels, hidden_dims, cntr, idx) ==
    IF idx = 0 THEN FlattenedSize(in_size, channels, cntr)
    ELSE PyIndex(hidden_dims, idx - 1)

\* Faulty variant of PlainClassifierLayers: mlp_in_dims is never updated.
PlainClassifierLayersStale(in_size, channels, hidden_dims, out_classes, cntr) ==
    LET M == Len(hidden_dims)
        stage(idx) ==
            <<Linear(MlpInDims(in_size, channels, hidden_dims, cntr, 0),
                     PyIndex(hidden_dims, idx)),
              ReLU>>
    IN  ConcatAll([j \in 1..M |-> stage(j - 1)])
        \o <<Linear(MlpInDims(in_size, channels, hidden_dims, cntr, 0), out_classes)>>

\* ConvClassifier._make_classifier (inherited by ResNetClassifier).
PlainClassifierLayers(in_size, channels, hidden_dims, out_classes, cntr) ==
    LET M == Len(hidden_dims)
        stage(idx) ==
            <<Linear(MlpInDims(in_size, channels, hidden_dims, cntr, idx),
                     PyIndex(hidden_dims, idx)),
              ReLU>>
    IN  ConcatAll([j \in 1..M |-> stage(j - 1)])
        \o <<Linear(MlpInDims(in_size, channels, hidden_dims, cntr, M), out_classes)>>

\* YourCodeNet._make_classifier.
CustomClassifierLayers(in_size, channels, hidden_dims, out_classes, cntr) ==
    LET M == Len(hidden_dims)
        stage(idx) ==
            <<Linear(MlpInDims(in_size, channels, hidden_dims, cntr, idx),
                     PyIndex(hidden_dims, idx)),
              Dropout(25),
              ReLU>>
    IN  ConcatAll([j \in 1..M |-> stage(j - 1)])
        \o <<Linear(MlpInDims(in_size, channels, hidden_dims, cntr, M), out_classes)>>

\* ---------------------------------------------------------------- tensors
\* Shape of a tensor without its batch dimension; NoShape is a raised error.
NoShape == <<>>

RECURSIVE Numel(_)
Numel(shape) == IF Len(shape) = 0 THEN 1 ELSE Head(shape) * Numel(Tail(shape))

\* Output side of a convolution / pooling window (torch's shape rule);
\* 0 when the padded input is smaller than the kernel, which torch rejects.
ConvSide(side, k, s, p) ==
    IF side + 2 * p < k THEN 0 ELSE ((side + 2 * p - k) \div s) + 1

\* Output side of a transposed convolution (torch's shape rule).
ConvTransposeSide(side, k, s, p) ==
    IF side < 1 THEN 0
    ELSE IF (side - 1) * s - 2 * p + k < 1 THEN 0 ELSE (side - 1) * s - 2 * p + k

\* A window layer applied to a (c, h, w) tensor.
Windowed(shape, cin, cout, hh, ww) ==
    IF Len(shape) # 3 THEN NoShape
    ELSE IF shape[1] # cin THEN NoShape
    ELSE IF hh < 1 \/ ww < 1 THEN NoShape
    ELSE <<cout, hh, ww>>

RECURSIVE ForwardSeq(_, _)
\* One module applied to a tensor of the given shape.
ForwardLayer(l, shape) ==
    IF shape = NoShape THEN NoShape
    ELSE CASE l.op = "Conv2d" ->
                Windowed(shape, l.in_channels, l.out_channels,
                         ConvSide(shape[2], l.kernel_size, l.stride, l.padding),
                         ConvSide(shape[3], l.kernel_size, l.stride, l.padding))
           [] l.op = "ConvTranspose2d" ->
                Windowed(shape, l.in_channels, l.out_channels,
                         ConvTransposeSide(shape[2], l.kernel_size, l.stride, l.padding),
                         ConvTransposeSide(shape[3], l.kernel_size, l.stride, l.padding))
           [] l.op = "CustomConv" ->
                \* CustomConv.forward: the 1x1, 3x3 and 5x5 outputs are summed
                Windowed(shape, l.in_channels, l.out_channels, shape[2], shape[3])
           [] l.op = "MaxPool2d" ->
                Windowed(shape, shape[1], shape[1],
                         ConvSide(shape[2], 2, 2, 0), ConvSide(shape[3], 2, 2, 0))
           [] l.op = "BatchNorm2d" ->
                Windowed(shape, l.num_features, l.num_features, shape[2], shape[3])
           [] l.op = "Linear" ->
                IF shape[Len(shape)] = l.in_features
                THEN SubSeq(shape, 1, Len(shape) - 1) \o <<l.out_features>>
                ELSE NoShape
           [] IsBlock(l) ->
                \* ResidualBlock.forward: out = main_path(x); out += shortcut_path(x)
                LET out == ForwardSeq(l.main_path, shape)
                    skip == ForwardSeq(l.shortcut_path, shape)
                IN  IF out # NoShape /\ out = skip THEN out ELSE NoShape
           [] OTHER -> shape

\* nn.Sequential applied to a tensor.
ForwardSeq(layers, shape) ==
    IF Len(layers) = 0 THEN shape
    ELSE ForwardSeq(Tail(layers), ForwardLayer(Head(layers), shape))

\* features.view(features.shape[0], -1)
Flatten(shape) == IF shape = NoShape THEN NoShape ELSE <<Numel(shape)>>

\* ---------------------------------------------------------------- state
VARIABLES
    \* a classifier of hw2/cnn.py
    cls,                \* "ConvClassifier" | "ResNetClassifier" | "YourCodeNet"
    in_size, out_classes, channels, pool_every, hidden_dims,
    pool_cntr, feature_extractor, classifier,
    pc,                 \* "new" | "built" | "failed" | "forwarded"
    features, out,      \* forward: extractor output shape, class scores shape
    \* one convolution block: ResidualBlock, CustomResidualBlock (hw2),
    \* EncoderConv, DecoderConv (hw3)
    block_args,         \* the constructor's arguments
    block,              \* the constructed module
    block_pc,           \* "new" | "built" | "failed" | "forwarded"
    x_shape,            \* forward: shape of the input
    main_out, skip_out, \* forward: main_path(x), shortcut_path(x)
    block_out,          \* forward: the returned tensor
    \* a VAE of hw3/autoencoder.py
    vae_pc,             \* "new" | "built" | "failed"
    features_encoder, features_decoder, z_dim,
    vae_in_size,        \* the in_size given to the constructor
    features_shape,     \* self.features_shape
    in_fc_dim,          \* self.in_fc_dim
    mu_fc, log_sigma2_fc, rec_fc,
    n_checks,           \* calls of _check_features so far
    call,               \* the last method called: "none" | "encode" | "decode" | "forward" | "sample"
    batch,              \* its batch size
    invoked,            \* the sub-modules that call ran, in order
    z_shape,            \* the latent z: returned by encode, drawn by sample
    mu_shape, log_sigma2_shape,            \* what encode returned
    z_dec_shape,        \* decode: the latent after rec_fc and view
    x_rec_shape,        \* what decode returned
    \* an EncoderCNN and its mirror DecoderCNN of hw3/autoencoder.py
    cnn_pc,             \* "new" | "encoded" | "decoded"
    cnn_in_channels, cnn_out_channels,   \* the encoder's constructor arguments
    cnn_x,              \* the batch given to the encoder, (N, C, H, W)
    cnn_h,              \* EncoderCNN.forward(x)
    cnn_xr,             \* DecoderCNN.forward(h)
    \* one call of vae_loss of hw3/autoencoder.py
    loss_pc,            \* "new" | "done"
    loss_args,          \* its arguments x, xr, z_mu, z_log_sigma2, x_sigma2
    loss, data_loss, kldiv_loss,  \* the three scalars it returns
    \* a KNNClassifier of hw1/knn_classifier.py
    knn_pc,             \* "none" | "constructed" | "trained"
    knn_k,              \* self.k
    dl_train,           \* the DataLoader given to train: its dataset (a sample
                        \* is its index, with a label), batch_size and sampler,
                        \* and the orders its two iterators yielded
    x_train, y_train,   \* self.x_train (sample indices, one per row), self.y_train
    n_classes           \* self.n_classes

clsVars == <<cls, in_size, out_classes, channels, pool_every, hidden_dims,
             pool_cntr, feature_extractor, classifier, pc, features, out>>

blockVars == <<block_args, block, block_pc, x_shape, main_out, skip_out, block_out>>

vaeVars == <<vae_pc, features_encoder, features_decoder, z_dim, vae_in_size,
             features_shape, in_fc_dim, mu_fc, log_sigma2_fc, rec_fc, n_checks,
             call, batch, invoked, z_shape, mu_shape, log_sigma2_shape, z_dec_shape,
             x_rec_shape>>

cnnVars == <<cnn_pc, cnn_in_channels, cnn_out_channels, cnn_x, cnn_h, cnn_xr>>

lossVars == <<loss_pc, loss_args, loss, data_loss, kldiv_loss>>

knnVars == <<knn_pc, knn_k, dl_train, x_train, y_train, n_classes>>

vars == <<clsVars, blockVars, vaeVars, cnnVars, lossVars, knnVars>>

\* Frame conditions: a step on one object leaves the other objects alone.
ClsOnly == UNCHANGED <<blockVars, vaeVars, cnnVars, lossVars, knnVars>>
BlockOnly == UNCHANGED <<clsVars, vaeVars, cnnVars, lossVars, knnVars>>
VaeOnly == UNCHANGED <<clsVars, blockVars, cnnVars, lossVars, knnVars>>
CnnOnly == UNCHANGED <<clsVars, blockVars, vaeVars, lossVars, knnVars>>
LossOnly == UNCHANGED <<clsVars, blockVars, vaeVars, cnnVars, knnVars>>
KnnOnly == UNCHANGED <<clsVars, blockVars, vaeVars, cnnVars, lossVars>>

\* ---------------------------------------------------------------- classifiers
ClsInit ==
    /\ cls = "none" /\ in_size = <<>> /\ out_classes = 0 /\ channels = <<>>
    /\ pool_every = 0 /\ hidden_dims = <<>> /\ pool_cntr = 0
    /\ feature_extractor = <<>> /\ classifier = <<>>
    /\ pc = "new" /\ features = NoShape /\ out = NoShape

\* Every block of a layers list was constructed without an AssertionError.
BlocksOk(layers) == \A i \in 1..Len(layers) : IsBlock(layers[i]) => layers[i].ok

\* ConvClassifier.__init__ with the given builders (the subclasses override
\* _make_feature_extractor / _make_classifier and nothing else).
Construct(name, size, classes, chans, every, hidden, layers, cntr, head) ==
    /\ cls' = name
    /\ features' = NoShape /\ out' = NoShape
    /\ IF Len(chans) = 0 \/ Len(hidden) = 0 \/ ~BlocksOk(layers)
       THEN \* assert channels and hidden_dims
            /\ pc' = "failed"
            /\ UNCHANGED <<in_size, out_classes, channels, pool_every, hidden_dims,
                           pool_cntr, feature_extractor, classifier>>
       ELSE /\ pc' = "built"
            /\ in_size' = size /\ out_classes' = classes /\ channels' = chans
            /\ pool_every' = every /\ hidden_dims' = hidden
            /\ pool_cntr' = cntr
            /\ feature_extractor' = layers
            /\ classifier' = head

ConvClassifierInit ==
    /\ pc = "new"
    /\ ClsOnly
    /\ \E size \in ChannelVals \X SideVals \X SideVals, classes \in ClassVals,
       chans \in SeqsOf(ChannelVals, 0, MaxLen), every \in 1..MaxPoolEvery,
       hidden \in SeqsOf(HiddenVals, 0, MaxHidden) :
        IF Len(chans) = 0
        THEN Construct("ConvClassifier", size, classes, chans, every, hidden,
                       <<>>, 0, <<>>)
        ELSE Construct("ConvClassifier", size, classes, chans, every, hidden,
                       PlainFeatureLayers(size, chans, every),
                       PlainPoolCntr(chans, every),
                       PlainClassifierLayers(size, chans, hidden, classes,
                                             PlainPoolCntr(chans, every)))

ResNetClassifierInit ==
    /\ pc = "new"
    /\ ClsOnly
    /\ \E size \in ChannelVals \X SideVals \X SideVals, classes \in ClassVals,
       chans \in SeqsOf(ChannelVals, 0, MaxLen), every \in 1..MaxPoolEvery,
       hidden \in SeqsOf(HiddenVals, 0, MaxHidden) :
        IF Len(chans) = 0
        THEN Construct("ResNetClassifier", size, classes, chans, every, hidden,
                       <<>>, 0, <<>>)
        ELSE Construct("ResNetClassifier", size, classes, chans, every, hidden,
                       ResNetFeatureLayers(size, chans, every),
                       BlockPoolCntr(chans, every),
                       PlainClassifierLayers(size, chans, hidden, classes,
                                             BlockPoolCntr(chans, every)))

YourCodeNetInit ==
    /\ pc = "new"
    /\ ClsOnly
    /\ \E size \in ChannelVals \X SideVals \X SideVals, classes \in ClassVals,
       chans \in SeqsOf(ChannelVals, 0, MaxLen), every \in 1..MaxPoolEvery,
       hidden \in SeqsOf(HiddenVals, 0, MaxHidden) :
        IF Len(chans) = 0
        THEN Construct("YourCodeNet", size, classes, chans, every, hidden,
                       <<>>, 0, <<>>)
        ELSE Construct("YourCodeNet", size, classes, chans, every, hidden,
                       CustomFeatureLayers(size, chans, every),
                       BlockPoolCntr(chans, every),
                       CustomClassifierLayers(size, chans, hidden, classes,
                                              BlockPoolCntr(chans, every)))

\* ConvClassifier.forward / YourCodeNet.forward on a batch of in_size images.
Forward ==
    /\ pc = "built"
    /\ ClsOnly
    /\ features' = ForwardSeq(feature_extractor, in_size)
    /\ out' = ForwardSeq(classifier, Flatten(features'))
    /\ pc' = "forwarded"
    /\ UNCHANGED <<cls, in_size, out_classes, channels, pool_every, hidden_dims,
                   pool_cntr, feature_extractor, classifier>>

ClsNext ==
    \/ ConvClassifierInit
    \/ ResNetClassifierInit
    \/ YourCodeNetInit
    \/ Forward

\* ---------------------------------------------------------------- blocks
NoArgs == [kind |-> "none", in_channels |-> 0, channels |-> <<>>, kernel_sizes |-> <<>>,
           stride_list |-> <<>>, padding_list |-> <<>>, batchnorm |-> FALSE,
           dropout |-> 0]
NoBlock == [op |-> "none", ok |-> FALSE, main_path |-> <<>>, shortcut_path |-> <<>>]

BlockInit ==
    /\ block_args = NoArgs /\ block = NoBlock /\ block_pc = "new"
    /\ x_shape = NoShape /\ main_out = NoShape /\ skip_out = NoShape
    /\ block_out = NoShape

\* A constructor call: the module exists unless an assert failed.
BlockConstruct(args, b) ==
    /\ block_args' = args
    /\ block' = (IF b.ok THEN b ELSE NoBlock)
    /\ block_pc' = (IF b.ok THEN "built" ELSE "failed")
    /\ UNCHANGED <<x_shape, main_out, skip_out, block_out>>

ResidualBlockInit ==
    /\ block_pc = "new"
    /\ BlockOnly
    /\ \E ic \in ChannelVals, chans \in SeqsOf(ChannelVals, 0, MaxBlockLen),
          ks \in SeqsOf(KernelVals, 0, MaxBlockLen), bn \in BOOLEAN, dp \in {0, 20} :
        BlockConstruct([kind |-> "ResidualBlock", in_channels |-> ic, channels |-> chans,
                        kernel_sizes |-> ks, stride_list |-> <<>>, padding_list |-> <<>>,
                        batchnorm |-> bn, dropout |-> dp],
                       ResidualBlock(ic, chans, ks, bn, dp))

CustomResidualBlockInit ==
    /\ block_pc = "new"
    /\ BlockOnly
    /\ \E ic \in ChannelVals, chans \in SeqsOf(ChannelVals, 0, MaxBlockLen),
          bn \in BOOLEAN, dp \in {0, 20} :
        BlockConstruct([kind |-> "CustomResidualBlock", in_channels |-> ic,
                        channels |-> chans, kernel_sizes |-> <<>>, stride_list |-> <<>>,
                        padding_list |-> <<>>, batchnorm |-> bn, dropout |-> dp],
                       CustomResidualBlock(ic, chans, bn, dp))

EncoderConvInit ==
    /\ block_pc = "new"
    /\ BlockOnly
    /\ \E ic \in ChannelVals, chans \in SeqsOf(ChannelVals, 0, MaxStackLen),
          ks \in SeqsOf(StackKernelVals, 0, MaxStackLen),
          ss \in SeqsOf(StrideVals, 0, MaxStackLen),
          ps \in SeqsOf(PaddingVals, 0, MaxStackLen) :
        BlockConstruct([kind |-> "EncoderConv", in_channels |-> ic, channels |-> chans,
                        kernel_sizes |-> ks, stride_list |-> ss, padding_list |-> ps,
                        batchnorm |-> TRUE, dropout |-> 10],
                       EncoderConv(ic, chans, ks, ss, ps))

DecoderConvInit ==
    /\ block_pc = "new"
    /\ BlockOnly
    /\ \E ic \in ChannelVals, chans \in SeqsOf(ChannelVals, 0, MaxStackLen),
          ks \in SeqsOf(StackKernelVals, 0, MaxStackLen),
          ss \in SeqsOf(StrideVals, 0, MaxStackLen),
          ps \in SeqsOf(PaddingVals, 0, MaxStackLen) :
        BlockConstruct([kind |-> "DecoderConv", in_channels |-> ic, channels |-> chans,
                        kernel_sizes |-> ks, stride_list |-> ss, padding_list |-> ps,
                        batchnorm |-> TRUE, dropout |-> 10],
                       DecoderConv(ic, chans, ks, ss, ps))

\* The forward method of the four blocks on a batch of (c, h, w) tensors:
\* the residual blocks add the shortcut to the main path, the stacks do not.
BlockForward ==
    /\ block_pc = "built"
    /\ BlockOnly
    /\ \E c \in ChannelVals, h \in BlockSideVals, w \in BlockSideVals :
        /\ x_shape' = <<c, h, w>>
        /\ main_out' = ForwardSeq(block.main_path, <<c, h, w>>)
        /\ skip_out' = (IF IsBlock(block)
                        THEN ForwardSeq(block.shortcut_path, <<c, h, w>>)
                        ELSE NoShape)
        /\ block_out' = (IF IsBlock(block) THEN ForwardLayer(block, <<c, h, w>>)
                         ELSE main_out')
    /\ block_pc' = "forwarded"
    /\ UNCHANGED <<block_args, block>>

BlockNext ==
    \/ ResidualBlockInit
    \/ CustomResidualBlockInit
    \/ EncoderConvInit
    \/ DecoderConvInit
    \/ BlockForward

\* ---------------------------------------------------------------- VAE
VaeInit ==
    /\ vae_pc = "new" /\ features_encoder = <<>> /\ features_decoder = <<>>
    /\ z_dim = 0 /\ vae_in_size = <<>> /\ features_shape = <<>> /\ in_fc_dim = 0
    /\ mu_fc = <<>> /\ log_sigma2_fc = <<>> /\ rec_fc = <<>> /\ n_checks = 0
    /\ call = "none" /\ batch = 0 /\ invoked = <<>>
    /\ z_shape = NoShape /\ mu_shape = NoShape /\ log_sigma2_shape = NoShape
    /\ z_dec_shape = NoShape /\ x_rec_shape = NoShape

\* Encoders / decoders handed to the VAE: the repository's EncoderCNN and
\* DecoderCNN, and EncoderConv / DecoderConv stacks of kernel-4 convolutions.
StackArgs ==
    UNION {[channels : {chans}, schedule : [1..Len(chans) -> VaeSchedules]] :
              chans \in SeqsOf(ChannelVals, 1, MaxStackLen)}
Strides(a) == [i \in 1..Len(a.channels) |-> a.schedule[i][1]]
Paddings(a) == [i \in 1..Len(a.channels) |-> a.schedule[i][2]]
Encoders ==
    {EncoderCNN(ic, oc) : ic \in ChannelVals, oc \in ChannelVals}
    \cup {EncoderConv(ic, a.channels, Rep(4, Len(a.channels)), Strides(a),
                      Paddings(a)).main_path : ic \in ChannelVals, a \in StackArgs}
Decoders ==
    {DecoderCNN(ic, oc) : ic \in ChannelVals, oc \in ChannelVals}
    \cup {DecoderConv(ic, a.channels, Rep(4, Len(a.channels)), Strides(a),
                      Paddings(a)).main_path : ic \in ChannelVals, a \in StackArgs}

\* Faulty variant of CheckFeatures: the feature shape is returned with height
\* and width exchanged.
CheckFeaturesTransposed(encoder, decoder, size) ==
    LET h == ForwardSeq(encoder, size)
        xr == ForwardSeq(decoder, h)
    IN  IF h = NoShape \/ xr = NoShape \/ <<1>> \o xr # <<1>> \o size
        THEN [ok |-> FALSE, shape |-> NoShape, n_features |-> 0]
        ELSE [ok |-> TRUE, shape |-> <<h[1], h[3], h[2]>>,
              n_features |-> Numel(<<1>> \o h) \div 1]

\* Faulty variant of CheckFeatures: the assert xr.shape == x.shape is missing.
CheckFeaturesNoAssert(encoder, decoder, size) ==
    LET h == ForwardSeq(encoder, size)
        xr == ForwardSeq(decoder, h)
    IN  IF h = NoShape \/ xr = NoShape
        THEN [ok |-> FALSE, shape |-> NoShape, n_features |-> 0]
        ELSE [ok |-> TRUE, shape |-> h, n_features |-> Numel(<<1>> \o h) \div 1]

\* VAE._check_features(in_size) with the given encoder and decoder: x is one
\* sample; ok = FALSE is a raised error (a layer rejecting its input, or the
\* assert xr.shape == x.shape); otherwise h.shape[1:] and numel(h) // h.shape[0].
CheckFeatures(encoder, decoder, size) ==
    LET h == ForwardSeq(encoder, size)
        xr == ForwardSeq(decoder, h)
    IN  IF h = NoShape \/ xr = NoShape \/ <<1>> \o xr # <<1>> \o size
        THEN [ok |-> FALSE, shape |-> NoShape, n_features |-> 0]
        ELSE [ok |-> TRUE, shape |-> h, n_features |-> Numel(<<1>> \o h) \div 1]

\* The sub-modules one call of _check_features runs: the decoder is reached
\* only if the encoder accepted x.
CheckRan(encoder, size) ==
    IF ForwardSeq(encoder, size) = NoShape THEN <<"features_encoder">>
    ELSE <<"features_encoder", "features_decoder">>

\* VAE.__init__: _check_features runs for features_shape and again for
\* enc_out_dim, whose second component sizes the three linear layers.
VAEInit ==
    /\ vae_pc = "new"
    /\ VaeOnly
    /\ \E encoder \in Encoders, decoder \in Decoders,
          size \in ChannelVals \X VaeSideVals \X VaeSideVals, zd \in ZDimVals :
        LET first == CheckFeatures(encoder, decoder, size)
            enc_out_dim == CheckFeatures(encoder, decoder, size)
        IN  /\ features_encoder' = encoder
            /\ features_decoder' = decoder
            /\ z_dim' = zd
            /\ vae_in_size' = size
            /\ IF first.ok /\ enc_out_dim.ok
               THEN /\ vae_pc' = "built"
                    /\ n_checks' = n_checks + 2
                    /\ invoked' = CheckRan(encoder, size) \o CheckRan(encoder, size)
                    /\ features_shape' = first.shape
                    /\ in_fc_dim' = enc_out_dim.n_features
                    /\ mu_fc' = <<Linear(enc_out_dim.n_features, zd)>>
                    /\ log_sigma2_fc' = <<Linear(enc_out_dim.n_features, zd)>>
                    /\ rec_fc' = <<Linear(zd, enc_out_dim.n_features)>>
               ELSE /\ vae_pc' = "failed"
                    /\ n_checks' = n_checks + 1
                    /\ invoked' = CheckRan(encoder, size)
                    /\ UNCHANGED <<features_shape, in_fc_dim, mu_fc, log_sigma2_fc,
                                   rec_fc>>
    /\ UNCHANGED <<call, batch, z_shape, mu_shape, log_sigma2_shape, z_dec_shape,
                   x_rec_shape>>

\* Shapes with a batch dimension: a module maps (N, shape) to (N, shape').
Batched(n, shape) == IF shape = NoShape THEN NoShape ELSE <<n>> \o shape

\* Elementwise a * b + c of equally shaped tensors.
Elementwise(a, b, c) == IF a # NoShape /\ a = b /\ b = c THEN a ELSE NoShape

\* encode(x) for x of shape (n, *x): [z, mu, log_sigma2].
EncodeShapes(n, x) ==
    LET encoded_features == ForwardSeq(features_encoder, x)
        mu == ForwardSeq(mu_fc, Flatten(encoded_features))
        log_sigma2 == ForwardSeq(log_sigma2_fc, Flatten(encoded_features))
        u == IF encoded_features = NoShape THEN NoShape ELSE <<z_dim>>
    IN  [z |-> Batched(n, Elementwise(log_sigma2, u, mu)),
         mu |-> Batched(n, mu),
         log_sigma2 |-> Batched(n, log_sigma2)]

\* decode(z) for z of shape (n, *z): [z_dec (after view), x_rec].
DecodeShapes(n, z) ==
    LET projected == ForwardSeq(rec_fc, z)
        \* view(z.shape[0], features_shape[0], features_shape[1], features_shape[2])
        viewed == IF projected # NoShape
                     /\ n * Numel(projected) = n * Numel(features_shape)
                  THEN features_shape ELSE NoShape
    IN  [z_dec |-> Batched(n, viewed),
         x_rec |-> Batched(n, ForwardSeq(features_decoder, viewed))]

\* The sub-modules encode and decode run, in order.
EncodeRan == <<"features_encoder", "mu_fc", "log_sigma2_fc">>
DecodeRan == <<"rec_fc", "features_decoder">>

\* Faulty variant of SampleShapes: the latent comes from encode on a batch of
\* n inputs, as in forward.
SampleShapesViaEncode(n) ==
    LET e == EncodeShapes(n, vae_in_size)
        d == DecodeShapes(n, <<z_dim>>)
    IN  [z |-> e.z, z_dec |-> d.z_dec, x_rec |-> d.x_rec, ran |-> EncodeRan \o DecodeRan]

\* sample(n): z = torch.randn((n, z_dim)); x = self.decode(z); x.cpu()
SampleShapes(n) ==
    LET z == <<z_dim>>
        d == DecodeShapes(n, z)
    IN  [z |-> Batched(n, z), z_dec |-> d.z_dec, x_rec |-> d.x_rec, ran |-> DecodeRan]

\* Per-sample part of a batched shape.
Sample1(shape) == IF shape = NoShape THEN NoShape ELSE Tail(shape)

Encode ==
    /\ vae_pc = "built"
    /\ VaeOnly
    /\ \E n \in 1..MaxBatch :
        LET r == EncodeShapes(n, vae_in_size)
        IN  /\ batch' = n
            /\ z_shape' = r.z /\ mu_shape' = r.mu /\ log_sigma2_shape' = r.log_sigma2
    /\ call' = "encode" /\ invoked' = EncodeRan
    /\ z_dec_shape' = NoShape /\ x_rec_shape' = NoShape
    /\ UNCHANGED <<vae_pc, features_encoder, features_decoder, z_dim, vae_in_size,
                   features_shape, in_fc_dim, mu_fc, log_sigma2_fc, rec_fc, n_checks>>

Decode ==
    /\ vae_pc = "built"
    /\ VaeOnly
    /\ \E n \in 1..MaxBatch :
        LET r == DecodeShapes(n, <<z_dim>>)
        IN  /\ batch' = n
            /\ z_dec_shape' = r.z_dec /\ x_rec_shape' = r.x_rec
    /\ call' = "decode" /\ invoked' = DecodeRan
    /\ z_shape' = NoShape /\ mu_shape' = NoShape /\ log_sigma2_shape' = NoShape
    /\ UNCHANGED <<vae_pc, features_encoder, features_decoder, z_dim, vae_in_size,
                   features_shape, in_fc_dim, mu_fc, log_sigma2_fc, rec_fc, n_checks>>

\* forward(x): z, mu, log_sigma2 = encode(x); return decode(z), mu, log_sigma2
VAEForward ==
    /\ vae_pc = "built"
    /\ VaeOnly
    /\ \E n \in 1..MaxBatch :
        LET e == EncodeShapes(n, vae_in_size)
            d == DecodeShapes(n, Sample1(e.z))
        IN  /\ batch' = n
            /\ z_shape' = e.z /\ mu_shape' = e.mu /\ log_sigma2_shape' = e.log_sigma2
            /\ z_dec_shape' = d.z_dec /\ x_rec_shape' = d.x_rec
    /\ call' = "forward" /\ invoked' = EncodeRan \o DecodeRan
    /\ UNCHANGED <<vae_pc, features_encoder, features_decoder, z_dim, vae_in_size,
                   features_shape, in_fc_dim, mu_fc, log_sigma2_fc, rec_fc, n_checks>>

\* sample(n), n >= 1.
Sample ==
    /\ vae_pc = "built"
    /\ VaeOnly
    /\ \E n \in 1..MaxBatch :
        LET r == SampleShapes(n)
        IN  /\ batch' = n
            /\ z_shape' = r.z
            /\ z_dec_shape' = r.z_dec /\ x_rec_shape' = r.x_rec
            /\ invoked' = r.ran
    /\ call' = "sample"
    /\ mu_shape' = NoShape /\ log_sigma2_shape' = NoShape
    /\ UNCHANGED <<vae_pc, features_encoder, features_decoder, z_dim, vae_in_size,
                   features_shape, in_fc_dim, mu_fc, log_sigma2_fc, rec_fc, n_checks>>

VaeNext ==
    \/ VAEInit
    \/ Encode
    \/ Decode
    \/ VAEForward
    \/ Sample

\* ---------------------------------------------------------------- mirror stacks
CnnInit ==
    /\ cnn_pc = "new" /\ cnn_in_channels = 0 /\ cnn_out_channels = 0
    /\ cnn_x = NoShape /\ cnn_h = NoShape /\ cnn_xr = NoShape

\* EncoderCNN(in_channels, out_channels).forward(x) on an image batch
\* (N, in_channels, H_in, W_in).
EncoderCNNForward ==
    /\ cnn_pc = "new"
    /\ CnnOnly
    /\ \E ic \in ChannelVals, oc \in ChannelVals, n \in 1..MaxBatch,
          h \in MirrorSideVals, w \in MirrorSideVals :
        /\ cnn_in_channels' = ic /\ cnn_out_channels' = oc
        /\ cnn_x' = <<n, ic, h, w>>
        /\ cnn_h' = Batched(n, ForwardSeq(EncoderCNN(ic, oc), <<ic, h, w>>))
    /\ cnn_pc' = "encoded"
    /\ UNCHANGED cnn_xr

\* DecoderCNN(out_channels, in_channels).forward(h) on the encoder's output:
\* torch.tanh(self.cnn(h)), tanh keeping the shape.
DecoderCNNForward ==
    /\ cnn_pc = "encoded"
    /\ CnnOnly
    /\ cnn_xr' = Batched(cnn_x[1],
                         ForwardSeq(DecoderCNN(cnn_out_channels, cnn_in_channels),
                                    Sample1(cnn_h)))
    /\ cnn_pc' = "decoded"
    /\ UNCHANGED <<cnn_in_channels, cnn_out_channels, cnn_x, cnn_h>>

CnnNext ==
    \/ EncoderCNNForward
    \/ DecoderCNNForward

\* ---------------------------------------------------------------- vae_loss
\* Scalars are exact fractions num / den in lowest terms with den > 0; the
\* rounding of floating point is not modelled.
RECURSIVE Gcd(_, _)
Gcd(a, b) == IF b = 0 THEN a ELSE Gcd(b, a % b)
Abs(a) == IF a < 0 THEN -a ELSE a
Rat(n, d) ==
    LET g == Gcd(Abs(n), Abs(d))
        sign == IF d < 0 THEN -1 ELSE 1
    IN  [num |-> (sign * n) \div g, den |-> (sign * d) \div g]
RatAdd(a, b) == Rat(a.num * b.den + b.num * a.den, a.den * b.den)
RatSub(a, b) == Rat(a.num * b.den - b.num * a.den, a.den * b.den)
RatMul(a, b) == Rat(a.num * b.num, a.den * b.den)
RatDiv(a, b) == Rat(a.num * b.den, a.den * b.num)
Scalar(i) == Rat(i, 1)

\* A tensor: its shape and its entries in row-major order.
Tensors(shape, vals) ==
    {[shape |-> shape, data |-> d] : d \in [1..Numel(shape) -> vals]}
\* torch.full(shape, c)
Full(shape, c) == [shape |-> shape, data |-> [i \in 1..Numel(shape) |-> c]]
\* A tensor whose entries alternate between a and b.
Alternating(shape, a, b) ==
    [shape |-> shape, data |-> [i \in 1..Numel(shape) |-> IF i % 2 = 1 THEN a ELSE b]]

\* x - xr of equally shaped tensors.
TensorSub(a, b) ==
    [shape |-> a.shape, data |-> [i \in 1..Len(a.data) |-> a.data[i] - b.data[i]]]

RECURSIVE SumSeq(_)
SumSeq(q) == IF Len(q) = 0 THEN Scalar(0) ELSE RatAdd(Head(q), SumSeq(Tail(q)))

\* t.sum()
TensorSum(t) == SumSeq([i \in 1..Len(t.data) |-> Scalar(t.data[i])])

\* t.norm() ** 2: the sum of the squared entries.
NormSquared(t) == SumSeq([i \in 1..Len(t.data) |-> Scalar(t.data[i] * t.data[i])])

\* math.exp to three decimals, on the log-variances tried.
Exp(v) == CASE v = 0 -> Rat(1, 1)
            [] v = 1 -> Rat(2718, 1000)
            [] v = -1 -> Rat(368, 1000)

\* torch.exp(t).sum()
ExpSum(t) == SumSeq([i \in 1..Len(t.data) |-> Exp(t.data[i])])

\* Faulty variant of DataLoss: dx is the element count of one sample.
DataLossPerSample(x, xr, x_sigma2) ==
    LET err == TensorSub(x, xr)
        dx == x.shape[2] * x.shape[3] * x.shape[4]
    IN  RatDiv(RatMul(RatDiv(Scalar(1), x_sigma2), NormSquared(err)), Scalar(dx))

\* vae_loss: data_loss = (1 / x_sigma2) * err.norm() ** 2 / dx with
\* dx = x.shape[0] * x.shape[1] * x.shape[2] * x.shape[3].
DataLoss(x, xr, x_sigma2) ==
    LET err == TensorSub(x, xr)
        dx == x.shape[1] * x.shape[2] * x.shape[3] * x.shape[4]
    IN  RatDiv(RatMul(RatDiv(Scalar(1), x_sigma2), NormSquared(err)), Scalar(dx))

\* Faulty variant of KldivLoss: dz is never subtracted.
KldivLossNoDz(z_mu, z_log_sigma2, N) ==
    RatDiv(RatSub(RatAdd(ExpSum(z_log_sigma2), NormSquared(z_mu)),
                  TensorSum(z_log_sigma2)),
           Scalar(N))

\* Faulty variant of KldivLoss: dz is subtracted before the division by N.
KldivLossDzInside(z_mu, z_log_sigma2, N) ==
    LET dz == z_mu.shape[2]
    IN  RatDiv(RatSub(RatSub(RatAdd(ExpSum(z_log_sigma2), NormSquared(z_mu)),
                             TensorSum(z_log_sigma2)),
                      Scalar(dz)),
               Scalar(N))

\* vae_loss: kldiv_loss = (exp(z_log_sigma2).sum() + z_mu.norm() ** 2
\*                         - z_log_sigma2.sum()) / N - dz
KldivLoss(z_mu, z_log_sigma2, N) ==
    LET dz == z_mu.shape[2]
    IN  RatSub(RatDiv(RatSub(RatAdd(ExpSum(z_log_sigma2), NormSquared(z_mu)),
                             TensorSum(z_log_sigma2)),
                      Scalar(N)),
               Scalar(dz))

LossInit ==
    /\ loss_pc = "new"
    /\ loss_args = [x |-> Full(<<>>, 0), xr |-> Full(<<>>, 0), z_mu |-> Full(<<>>, 0),
                    z_log_sigma2 |-> Full(<<>>, 0), x_sigma2 |-> Scalar(1)]
    /\ loss = Scalar(0) /\ data_loss = Scalar(0) /\ kldiv_loss = Scalar(0)

\* The likelihood variances tried, x_sigma2 > 0.
SigmaVals == {Rat(1, 1), Rat(1, 2)}

\* vae_loss(x, xr, z_mu, z_log_sigma2, x_sigma2) on an image batch x of shape
\* (N, C, H, W), its reconstruction xr and the posterior of shape (N, z_dim).
VaeLoss ==
    /\ loss_pc = "new"
    /\ LossOnly
    /\ \E n \in 1..MaxLossBatch, size \in LossSizes, dz \in LossZDimVals :
       \E x \in {Full(<<n>> \o size, c) : c \in PixelVals},
          xr \in Tensors(<<n>> \o size, PixelVals),
          z_mu \in Tensors(<<n, dz>>, MeanVals),
          z_log_sigma2 \in {Full(<<n, dz>>, v) : v \in LogVarVals}
                           \cup {Alternating(<<n, dz>>, 0, 1)},
          x_sigma2 \in SigmaVals :
        LET N == x.shape[1]
        IN  /\ loss_args' = [x |-> x, xr |-> xr, z_mu |-> z_mu,
                             z_log_sigma2 |-> z_log_sigma2, x_sigma2 |-> x_sigma2]
            /\ data_loss' = DataLoss(x, xr, x_sigma2)
            /\ kldiv_loss' = KldivLoss(z_mu, z_log_sigma2, N)
            /\ loss' = RatAdd(data_loss', kldiv_loss')
    /\ loss_pc' = "done"

LossNext == VaeLoss

\* ---------------------------------------------------------------- KNN
\* Python's None.
None == "None"

KnnInit ==
    /\ knn_pc = "none" /\ knn_k = 0
    /\ dl_train = [labels |-> <<>>, batch_size |-> 0, shuffle |-> FALSE,
                   first_order |-> <<>>, loop_order |-> <<>>]
    /\ x_train = None /\ y_train = None /\ n_classes = None

\* KNNClassifier.__init__(k)
KNNClassifierInit ==
    /\ knn_pc = "none"
    /\ KnnOnly
    /\ \E kk \in KVals : knn_k' = kk
    /\ x_train' = None /\ y_train' = None /\ n_classes' = None
    /\ knn_pc' = "constructed"
    /\ UNCHANGED dl_train

\* The orders in which a sampler can yield the indices 1..n: the dataset's
\* order for a sequential sampler, any permutation for a random sampler
\* (SubsetRandomSampler in find_best_k), drawn anew for every iterator.
Orders(n, shuffle) ==
    IF shuffle
    THEN {o \in [1..n -> 1..n] : \A i, j \in 1..n : o[i] = o[j] => i = j}
    ELSE {[i \in 1..n |-> i]}

\* The batches one iterator of a DataLoader yields: consecutive chunks of
\* batch_size indices, the last one possibly shorter.
Batches(order, batch_size) ==
    LET n == Len(order)
        count == (n + batch_size - 1) \div batch_size
    IN  [b \in 1..count |->
            SubSeq(order, (b - 1) * batch_size + 1,
                   IF b * batch_size < n THEN b * batch_size ELSE n)]

\* The rows train collects: the first batch of next(iter(dl_train)), then
\* every batch but the first of the loop 'for x, y in dl_train'.
TrainRows(first_order, loop_order, batch_size) ==
    LET first == Batches(first_order, batch_size)[1]
        loop == Batches(loop_order, batch_size)
    IN  first \o ConcatAll(Tail(loop))

\* KNNClassifier.train(dl_train) on a DataLoader over a non-empty dataset.
Train ==
    /\ knn_pc = "constructed"
    /\ KnnOnly
    /\ \E n \in 1..MaxSamples, batch_size \in 1..MaxLoaderBatch, shuffle \in BOOLEAN :
       \E labels \in [1..n -> LabelVals],
          first_order \in Orders(n, shuffle), loop_order \in Orders(n, shuffle) :
        LET rows == TrainRows(first_order, loop_order, batch_size)
        IN  /\ dl_train' = [labels |-> labels, batch_size |-> batch_size,
                            shuffle |-> shuffle, first_order |-> first_order,
                            loop_order |-> loop_order]
            /\ x_train' = rows
            /\ y_train' = [i \in 1..Len(rows) |-> labels[rows[i]]]
            /\ n_classes' = Len(rows)
    /\ knn_pc' = "trained"
    /\ UNCHANGED knn_k

KnnNext ==
    \/ KNNClassifierInit
    \/ Train

\* ---------------------------------------------------------------- specifications
Init == ClsInit /\ BlockInit /\ VaeInit /\ CnnInit /\ LossInit /\ KnnInit

\* The classifiers of hw2/cnn.py.
Next == ClsNext
Spec == Init /\ [][Next]_vars

\* The convolution blocks of hw2/cnn.py and hw3/autoencoder.py.
NextBlock == BlockNext
SpecBlock == Init /\ [][NextBlock]_vars

\* The VAE of hw3/autoencoder.py.
NextVae == VaeNext
SpecVae == Init /\ [][NextVae]_vars

\* EncoderCNN and DecoderCNN of hw3/autoencoder.py, one after the other.
NextCnn == CnnNext
SpecCnn == Init /\ [][NextCnn]_vars

\* vae_loss of hw3/autoencoder.py.
NextLoss == LossNext
SpecLoss == Init /\ [][NextLoss]_vars

\* The KNNClassifier of hw1/knn_classifier.py.
NextKnn == KnnNext
SpecKnn == Init /\ [][NextKnn]_vars

\* ---------------------------------------------------------------- claim helpers
Built == pc \in {"built", "forwarded"}

\* Python's s[-1].
Last(s) == s[Len(s)]

\* The module names of a layers list, in order.
Ops(layers) == [i \in 1..Len(layers) |-> layers[i].op]

\* Number of 2x downsampling operations in a layers list.
Downs(layers) == Cardinality({i \in 1..Len(layers) : IsDown(layers[i])})

\* Output channel counts of the convolutions of a block's main path, in order.
BlockChannels(b) ==
    LET convs == SelectSeq(b.main_path, IsConv)
    IN  [i \in 1..Len(convs) |-> convs[i].out_channels]

\* The linear layers of a head, in order.
Linears(head) == SelectSeq(head, LAMBDA l : l.op = "Linear")

\* (C2) floor(N/P) x (P x (conv, act), pool) then N mod P x (conv, act).
PlainCadence(N, P) ==
    ConcatAll([g \in 1..(N \div P) |->
                  ConcatAll(Rep(<<"Conv2d", "ReLU">>, P)) \o <<"MaxPool2d">>])
    \o ConcatAll(Rep(<<"Conv2d", "ReLU">>, N % P))

\* (C6) M stages of the given shape, then one linear layer.
HeadCadence(M, stage) == ConcatAll(Rep(stage, M)) \o <<"Linear">>

\* (C6) stage i maps the previous width to hidden_dims[i], the last linear
\* maps hidden_dims[M] to out_classes.
HeadWidths(head) ==
    LET lin == Linears(head)
        M == Len(hidden_dims)
    IN  /\ Len(lin) = M + 1
        /\ \A i \in 1..M : lin[i].out_features = hidden_dims[i]
        /\ \A i \in 2..(M + 1) : lin[i].in_features = lin[i - 1].out_features
        /\ lin[M + 1].out_features = out_classes

\* ---------------------------------------------------------------- claims
\* C1: for a non-empty channels list of length N and pool_every P >= 1 the
\* plain and the residual feature extractor hold exactly floor(N / P) 2x
\* downsampling operations, and pool_cntr ends construction with that value.
C1_DownsamplingCount ==
    (Built /\ cls \in {"ConvClassifier", "ResNetClassifier"}) =>
        /\ Downs(feature_extractor) = Len(channels) \div pool_every
        /\ pool_cntr = Len(channels) \div pool_every

\* C2: the plain feature extractor is floor(N / P) repetitions of
\* (P x (convolution, activation), max-pool) followed by N mod P x
\* (convolution, activation); it holds exactly N convolutions.
C2_PlainCadence ==
    (Built /\ cls = "ConvClassifier") =>
        Ops(feature_extractor) = PlainCadence(Len(channels), pool_every)

\* C3: the residual feature extractor is floor(N / P) pairs (block of P
\* convolutions, downsampling) followed, iff N mod P > 0, by one block of the
\* N mod P trailing convolutions; every entry of channels is used by exactly
\* one block, in order.
C3_ResidualCadence ==
    (Built /\ cls = "ResNetClassifier") =>
        LET N == Len(channels)
            P == pool_every
            q == N \div P
            r == N % P
            fe == feature_extractor
        IN  /\ Len(fe) = 2 * q + (IF r > 0 THEN 1 ELSE 0)
            /\ \A g \in 1..q :
                /\ fe[2 * g - 1].op = "ResidualBlock"
                /\ BlockChannels(fe[2 * g - 1]) = SubSeq(channels, (g - 1) * P + 1, g * P)
                /\ fe[2 * g].op = "MaxPool2d"
            /\ r > 0 =>
                /\ fe[2 * q + 1].op = "ResidualBlock"
                /\ BlockChannels(fe[2 * q + 1]) = SubSeq(channels, q * P + 1, N)

\* C4: the input width of the head's first linear layer is
\* channels[-1] * floor(H / 2^k) * floor(W / 2^k), k being the number of
\* downsampling operations in the built feature extractor, and it is the
\* per-sample element count the feature extractor outputs for an in_size input.
C4_FlattenedSize ==
    pc = "forwarded" =>
        LET k == Downs(feature_extractor)
        IN  /\ pool_cntr = k
            /\ classifier[1].in_features =
                   Last(channels) * (in_size[2] \div Pow2(k)) * (in_size[3] \div Pow2(k))
            /\ features # NoShape
            /\ Numel(features) = classifier[1].in_features

\* C5: a classifier whose flattened feature size
\* channels[-1] * floor(H / 2^k) * floor(W / 2^k) is zero or negative is not
\* produced: construction fails.
C5_NonPositiveSizeFails ==
    Built =>
        LET k == Downs(feature_extractor)
        IN  Last(channels) * (in_size[2] \div Pow2(k)) * (in_size[3] \div Pow2(k)) > 0

\* C6 (as stated): the head is M stages (linear -> activation [-> dropout]),
\* stage i mapping the previous width to hidden_dims[i], then one final linear
\* layer to out_classes with no activation after it.
C6_HeadStagesAsStated ==
    Built =>
        /\ \/ Ops(classifier) = HeadCadence(Len(hidden_dims), <<"Linear", "ReLU">>)
           \/ Ops(classifier) =
                  HeadCadence(Len(hidden_dims), <<"Linear", "ReLU", "Dropout">>)
        /\ HeadWidths(classifier)

\* C6 (amended): the head is M stages, linear -> activation in the plain and
\* residual classifiers and linear -> dropout -> activation in the custom
\* classifier, stage i mapping the previous width to hidden_dims[i], then one
\* final linear layer to out_classes with no activation after it.
C6_HeadStages ==
    Built =>
        /\ Ops(classifier) =
              HeadCadence(Len(hidden_dims),
                          IF cls = "YourCodeNet" THEN <<"Linear", "Dropout", "ReLU">>
                          ELSE <<"Linear", "ReLU">>)
        /\ HeadWidths(classifier)

C6_Witness ==
    /\ Built /\ cls = "YourCodeNet"
    /\ Len(hidden_dims) = 2 /\ hidden_dims[1] # hidden_dims[2]
    /\ Len(classifier) = 7

\* (C19) The convolutions and blocks of a layers list, in order, each as its
\* input and output channel count.
ChannelUnits(layers) ==
    LET units == SelectSeq(layers, LAMBDA l : IsConv(l) \/ IsBlock(l))
        ends(l) == IF IsBlock(l)
                   THEN [in_channels |-> l.main_path[1].in_channels,
                         out_channels |-> Last(BlockChannels(l))]
                   ELSE [in_channels |-> l.in_channels, out_channels |-> l.out_channels]
    IN  [i \in 1..Len(units) |-> ends(units[i])]

\* C19: in the plain, residual and custom feature extractor, for every
\* non-empty channels list and pool_every >= 1, the first convolution or
\* block takes in_size's channel count, every later one takes the output
\* channel count of the one before it, and the last one outputs channels[-1].
C19_ChannelChain ==
    Built =>
        LET units == ChannelUnits(feature_extractor)
        IN  /\ Len(units) > 0
            /\ units[1].in_channels = in_size[1]
            /\ \A i \in 2..Len(units) :
                  units[i].in_channels = units[i - 1].out_channels
            /\ Last(units).out_channels = Last(channels)

\* ---------------------------------------------------------------- block claims
BlockBuilt == block_pc \in {"built", "forwarded"}

\* What follows a convolution of a main path: dropout, normalization,
\* activation or something else.
Role(l) == IF IsDrop(l) THEN "dropout"
           ELSE IF IsNorm(l) THEN "normalization"
           ELSE IF IsAct(l) THEN "activation"
           ELSE IF IsConv(l) THEN "convolution" ELSE "other"
Roles(layers) == [i \in 1..Len(layers) |-> Role(layers[i])]

\* (C8) convolution -> [dropout] -> [normalization] -> activation for each
\* convolution but the last, and the last convolution ends the path.
MainPathAsStated(mp, L) ==
    LET convs == {i \in 1..Len(mp) : IsConv(mp[i])}
        next(i) == CHOOSE j \in convs : j > i /\ \A m \in convs : m > i => j <= m
    IN  /\ Cardinality(convs) = L
        /\ Len(mp) \in convs
        /\ 1 \in convs
        /\ \A i \in convs \ {Len(mp)} :
              Roles(SubSeq(mp, i + 1, next(i) - 1))
                  \in {<<"activation">>, <<"dropout", "activation">>,
                       <<"normalization", "activation">>,
                       <<"dropout", "normalization", "activation">>}

\* C7: a residual block's shortcut is the identity exactly when
\* in_channels = channels[-1] and otherwise a bias-free 1x1 convolution to
\* channels[-1]; for an input (N, in_channels, H, W) the main path, the
\* shortcut and the block all return (N, channels[-1], H, W).
C7_ResidualShapes ==
    (block_pc = "forwarded" /\ block_args.kind = "ResidualBlock"
        /\ x_shape[1] = block_args.in_channels) =>
        LET a == block_args
            target == <<Last(a.channels), x_shape[2], x_shape[3]>>
        IN  /\ (block.shortcut_path = <<>>) <=> (a.in_channels = Last(a.channels))
            /\ a.in_channels # Last(a.channels) =>
                  block.shortcut_path =
                      <<Conv2d(a.in_channels, Last(a.channels), 1, 1, 0, FALSE)>>
            /\ main_out = target
            /\ skip_out = target
            /\ block_out = target

C7_Witness ==
    /\ block_pc = "forwarded" /\ block_args.kind = "ResidualBlock"
    /\ x_shape[1] = block_args.in_channels
    /\ Len(block_args.channels) = 3
    /\ block_args.in_channels # Last(block_args.channels)
    /\ block_args.kernel_sizes = <<3, 1, 3>>
    /\ x_shape[2] # x_shape[3]
    /\ block_out = <<Last(block_args.channels), x_shape[2], x_shape[3]>>

\* C8: in a ResidualBlock and a CustomResidualBlock with L >= 1 inner
\* convolutions each of the first L-1 convolutions is followed by
\* [dropout] -> [normalization] -> activation, and the L-th convolution is the
\* last element of the main path.
C8_MainPathOrder ==
    (BlockBuilt /\ block_args.kind \in {"ResidualBlock", "CustomResidualBlock"}) =>
        MainPathAsStated(block.main_path, Len(block_args.channels))

\* C9: construction fails exactly when the lists are inconsistent: for a
\* ResidualBlock an empty channels or kernel_sizes list, lists of different
\* lengths or an even kernel size; for an EncoderConv and a DecoderConv an
\* empty channels list or a kernel_sizes, stride_list or padding_list whose
\* length differs from that of channels.
C9_ConstructionChecks ==
    LET a == block_args
        even == \E i \in 1..Len(a.kernel_sizes) : a.kernel_sizes[i] % 2 = 0
    IN  /\ (block_pc # "new" /\ a.kind = "ResidualBlock") =>
              ((block_pc = "failed") <=>
                  \/ a.channels = <<>> \/ a.kernel_sizes = <<>>
                  \/ Len(a.channels) # Len(a.kernel_sizes)
                  \/ even)
        /\ (block_pc # "new" /\ a.kind \in {"EncoderConv", "DecoderConv"}) =>
              ((block_pc = "failed") <=>
                  \/ a.channels = <<>>
                  \/ Len(a.channels) # Len(a.kernel_sizes)
                  \/ Len(a.channels) # Len(a.stride_list)
                  \/ Len(a.channels) # Len(a.padding_list))
        /\ block_pc = "failed" => block = NoBlock

C9_Witness ==
    /\ block_pc = "failed" /\ block_args.kind = "ResidualBlock"
    /\ Len(block_args.channels) = 2 /\ block_args.kernel_sizes = <<3, 2>>

\* ---------------------------------------------------------------- VAE claims
\* C10: on a constructed VAE and a batch of N inputs of shape in_size,
\* encode returns z, mean and log-variance of shape (N, z_dim), decode
\* reshapes the projected latent to the cached feature shape, and
\* decode and forward return a batch of shape (N, C, H, W).
C10_VAEShapes ==
    /\ call \in {"encode", "forward"} =>
          /\ z_shape = <<batch, z_dim>>
          /\ mu_shape = <<batch, z_dim>>
          /\ log_sigma2_shape = <<batch, z_dim>>
    /\ call \in {"decode", "forward"} =>
          /\ z_dec_shape = <<batch>> \o features_shape
          /\ x_rec_shape = <<batch>> \o vae_in_size

C10_Witness ==
    /\ call = "forward" /\ batch = 2
    /\ vae_in_size[2] # vae_in_size[3]
    /\ Len(features_shape) = 3 /\ features_shape[2] # features_shape[3]
    /\ x_rec_shape = <<2>> \o vae_in_size
    /\ z_shape = <<2, z_dim>>

\* decoder(encoder(x)) for a one-sample input x of size in_size, as handed
\* to the constructor.
RoundTrip == ForwardSeq(features_decoder, ForwardSeq(features_encoder, vae_in_size))

\* C12: constructing a VAE fails exactly when decoder(encoder(x)) does not
\* have the shape of a one-sample input x of size in_size; after a failed
\* construction there is no VAE: no projection was built and no method is
\* ever called.
C12_ConstructionFailsOnMismatch ==
    vae_pc # "new" =>
        /\ (vae_pc = "failed") <=> (RoundTrip # vae_in_size)
        /\ vae_pc = "failed" =>
              /\ call = "none"
              /\ mu_fc = <<>> /\ log_sigma2_fc = <<>> /\ rec_fc = <<>>

C12_Witness ==
    /\ vae_pc = "failed"
    /\ RoundTrip # NoShape /\ RoundTrip # vae_in_size
    /\ RoundTrip[1] = vae_in_size[1]
    /\ call = "none"

\* The names in a sequence of sub-modules.
Ran(names) == {names[i] : i \in 1..Len(names)}

\* C13: sample(n), n >= 1, draws n latent vectors of dimension z_dim, runs
\* them through decode only and returns n reconstructions of shape in_size;
\* it never runs the encoder or the mean / log-variance projections, whatever
\* calls came before it.
C13_SampleDecodesOnly ==
    call = "sample" =>
        /\ batch >= 1
        /\ z_shape = <<batch, z_dim>>
        /\ invoked = <<"rec_fc", "features_decoder">>
        /\ Ran(invoked) \cap {"features_encoder", "mu_fc", "log_sigma2_fc"} = {}
        /\ x_rec_shape = <<batch>> \o vae_in_size
        /\ mu_shape = NoShape /\ log_sigma2_shape = NoShape

C13_Witness ==
    /\ call = "sample" /\ batch = 2
    /\ vae_in_size[2] # vae_in_size[3]
    /\ x_rec_shape = <<2>> \o vae_in_size
    /\ "features_decoder" \in Ran(invoked)

\* C18: constructing a VAE runs the encoder -> decoder compatibility check
\* exactly once and no method runs it again; the cached feature shape and the
\* feature count of the three projections are those of that check.
C18_SingleCheck ==
    vae_pc = "built" =>
        /\ n_checks = 1
        /\ features_shape = ForwardSeq(features_encoder, vae_in_size)
        /\ in_fc_dim = Numel(features_shape)
        /\ mu_fc = <<Linear(in_fc_dim, z_dim)>>
        /\ log_sigma2_fc = <<Linear(in_fc_dim, z_dim)>>
        /\ rec_fc = <<Linear(z_dim, in_fc_dim)>>

\* ---------------------------------------------------------------- mirror claims
\* C11: for an input batch (N, in_channels, H, W) with H >= 64 and W >= 64,
\* DecoderCNN applied to the output of EncoderCNN returns a batch of the
\* input's shape (N, in_channels, H, W).
C11_MirrorRoundTrip ==
    (cnn_pc = "decoded" /\ cnn_x[3] >= 64 /\ cnn_x[4] >= 64) => cnn_xr = cnn_x

\* ---------------------------------------------------------------- loss claims
\* The entries of sample i of a tensor whose first dimension is the batch.
Row(t, i) ==
    LET width == Len(t.data) \div t.shape[1]
    IN  SubSeq(t.data, (i - 1) * width + 1, i * width)

RECURSIVE IntSum(_)
IntSum(q) == IF Len(q) = 0 THEN 0 ELSE Head(q) + IntSum(Tail(q))

\* Sum of the squared element differences of x and xr over the whole batch.
SquaredError ==
    LET x == loss_args.x.data
        xr == loss_args.xr.data
    IN  IntSum([i \in 1..Len(x) |-> (x[i] - xr[i]) * (x[i] - xr[i])])

\* C14 (as stated): the reconstruction term is (1 / x_sigma2) * (sum of the
\* squared element differences over the whole batch) / (C * H * W).
C14_DataLossPerSampleCount ==
    loss_pc = "done" =>
        LET sh == loss_args.x.shape
        IN  data_loss = RatDiv(RatDiv(Scalar(SquaredError), loss_args.x_sigma2),
                               Scalar(sh[2] * sh[3] * sh[4]))

\* C14 (amended): the reconstruction term is (1 / x_sigma2) * (sum of the
\* squared element differences over the whole batch) / (N * C * H * W), the
\* element count of the whole batch.
C14_DataLossBatchCount ==
    loss_pc = "done" =>
        LET sh == loss_args.x.shape
        IN  data_loss = RatDiv(RatDiv(Scalar(SquaredError), loss_args.x_sigma2),
                               Scalar(sh[1] * sh[2] * sh[3] * sh[4]))

C14_Witness ==
    /\ loss_pc = "done"
    /\ loss_args.x.shape = <<2, 1, 2, 1>>
    /\ SquaredError = 3
    /\ loss_args.x_sigma2 = Rat(1, 2)
    /\ data_loss = Rat(3, 2)

\* Every entry of a tensor is zero.
AllZero(t) == \A i \in 1..Len(t.data) : t.data[i] = 0

\* C15: when mean and log-variance are zero for every sample the KL term is
\* 0 and the total loss equals the reconstruction term.
C15_KlZeroAtPrior ==
    (loss_pc = "done" /\ AllZero(loss_args.z_mu) /\ AllZero(loss_args.z_log_sigma2)) =>
        /\ kldiv_loss = Scalar(0)
        /\ loss = data_loss

C15_Witness ==
    /\ loss_pc = "done"
    /\ AllZero(loss_args.z_mu) /\ AllZero(loss_args.z_log_sigma2)
    /\ loss_args.z_mu.shape = <<2, 2>>
    /\ data_loss # Scalar(0)
    /\ loss = data_loss

\* The KL value of sample i with z_dim subtracted inside the sample's sum.
PerSampleKl(i) ==
    LET mu == Row(loss_args.z_mu, i)
        lv == Row(loss_args.z_log_sigma2, i)
        dz == loss_args.z_mu.shape[2]
    IN  RatSub(SumSeq([j \in 1..dz |->
                          RatSub(RatAdd(Exp(lv[j]), Scalar(mu[j] * mu[j])),
                                 Scalar(lv[j]))]),
               Scalar(dz))

\* C20: the KL term, which subtracts z_dim once from the batch-averaged sum,
\* equals the batch mean of the per-sample values in which z_dim is
\* subtracted inside each sample's sum.
C20_DzPlacement ==
    loss_pc = "done" =>
        LET N == loss_args.x.shape[1]
        IN  kldiv_loss = RatDiv(SumSeq([i \in 1..N |-> PerSampleKl(i)]), Scalar(N))

C20_Witness ==
    /\ loss_pc = "done"
    /\ loss_args.z_mu.shape = <<2, 2>>
    /\ Row(loss_args.z_mu, 1) # Row(loss_args.z_mu, 2)
    /\ Row(loss_args.z_log_sigma2, 1) = <<0, 1>>
    /\ kldiv_loss # Scalar(0)

\* ---------------------------------------------------------------- KNN claims
\* C16: after train returns, x_train and y_train hold every sample of the
\* dataloader exactly once, each row with its own label, for any number of
\* batches and also when the dataloader yields a different order each time it
\* is iterated.
C16_EverySampleOnce ==
    knn_pc = "trained" =>
        LET N == Len(dl_train.labels)
        IN  /\ Len(x_train) = N /\ Len(y_train) = N
            /\ \A s \in 1..N : Cardinality({i \in 1..Len(x_train) : x_train[i] = s}) = 1
            /\ \A i \in 1..Len(x_train) : y_train[i] = dl_train.labels[x_train[i]]

\* C17: after train returns, n_classes is the number of classes of the
\* training labels.
C17_NumberOfClasses ==
    knn_pc = "trained" =>
        n_classes = Cardinality({dl_train.labels[i] : i \in 1..Len(dl_train.labels)})

====
